---- MODULE Spec2Model ----
(***************************************************************************)
(* Flask-CAS: the login / logout request handlers, the ticket validation   *)
(* orchestrator, the three response parsers (flask_cas/routing.py) and the *)
(* protocol URL constructors they call (flask_cas/cas_urls.py).            *)
(*                                                                         *)
(* A Python dict is a function whose DOMAIN is its key set; None is the    *)
(* string None_; a Python call is checked against the callee's signature   *)
(* the way the interpreter binds arguments (Binds), so that a call the     *)
(* interpreter rejects raises TypeError in the model too.                  *)
(***************************************************************************)
EXTENDS Integers, Sequences, FiniteSets, TLC

VARIABLES
    CAS_VERSION,            \* current_app.config['CAS_VERSION']
    CAS_LOGOUT_RETURN_URL,  \* current_app.config['CAS_LOGOUT_RETURN_URL']
    testing,                \* app.testing: exceptions propagate, no response is built
    cookie,                 \* the session the client carries between requests
    session,                \* flask.session as the last handler left it
    last,                   \* what the last request did (observation record)
    python3,                \* the interpreter: Python 3 (routing.py:11) or Python 2 (routing.py:9)
    applied                 \* the last direct call of a parser or of create_url, and its result

vars == <<CAS_VERSION, CAS_LOGOUT_RETURN_URL, testing, cookie, session, last, python3, applied>>

None_ == "None"

(***************************************************************************)
(* Configuration (tests/test_routing.py setUp) and request inputs.         *)
(***************************************************************************)
CAS_SERVER == "http://cas.server.com"
CAS_ROUTE_PREFIX == "cas"
CAS_TOKEN_SESSION_KEY == "_CAS_TOKEN"
CAS_USERNAME_SESSION_KEY == "CAS_USERNAME"
CAS_ATTRIBUTES_SESSION_KEY == "CAS_ATTRIBUTES"
CAS_AFTER_LOGIN == "root"

\* flask.url_for('.login', _external=True) and flask.url_for(CAS_AFTER_LOGIN)
LoginUrl == "http://localhost/login/"
AfterLoginUrl == "http://localhost/"

Versions == {"1", "2", "3", "4"}
ReturnUrls == {None_, "http://example.com"}
Tickets == {"ST-1", "ST-2"}

(***************************************************************************)
(* Python dict operations on the session.                                  *)
(***************************************************************************)
EmptySession == [k \in {} |-> None_]

SetItem(d, key, val) == [k \in DOMAIN d \cup {key} |-> IF k = key THEN val ELSE d[k]]

DelItem(d, key) == [k \in DOMAIN d \ {key} |-> d[k]]

(***************************************************************************)
(* Python argument binding: a signature is the parameter names in order    *)
(* and the number of parameters without a default; a call is the number of *)
(* positional arguments and the set of keyword names.                      *)
(***************************************************************************)
Binds(sig, call) ==
    /\ call.npos <= Len(sig.params)
    /\ \A kw \in call.kw :
           \E i \in (call.npos + 1)..Len(sig.params) : sig.params[i] = kw
    /\ \A i \in 1..sig.required : i <= call.npos \/ sig.params[i] \in call.kw

(***************************************************************************)
(* cas_urls.py.  A URL is kept structured: the base, the path segments     *)
(* that survive the filter, and the query pairs that survive the filter.   *)
(***************************************************************************)
create_url(base, path, query) ==
    [base  |-> base,
     path  |-> SelectSeq(path, LAMBDA x : x # None_ /\ x # ""),
     query |-> SelectSeq(query, LAMBDA pair : pair[2] # None_)]

create_cas_login_url_sig ==
    [params |-> <<"cas_url", "cas_route_prefix", "service", "renew", "gateway", "method">>,
     required |-> 3]

\* the optional parameters passed as empty strings instead of None
create_cas_login_url_empty(cas_url, cas_route_prefix, service) ==
    create_url(cas_url, <<cas_route_prefix, "login">>,
               << <<"service", service>>, <<"renew", "">>,
                  <<"gateway", "">>, <<"method", "">> >>)

create_cas_login_url(cas_url, cas_route_prefix, service) ==
    create_url(cas_url, <<cas_route_prefix, "login">>,
               << <<"service", service>>, <<"renew", None_>>,
                  <<"gateway", None_>>, <<"method", None_>> >>)

create_cas_logout_url_sig ==
    [params |-> <<"cas_url", "cas_route_prefix", "service">>, required |-> 2]

create_cas_logout_url(cas_url, cas_route_prefix, service) ==
    create_url(cas_url, <<cas_route_prefix, "logout">>,
               << <<"service", service>> >>)

create_cas_validate_url_sig ==
    [params |-> <<"cas_url", "cas_route_prefix", "service", "ticket", "renew">>,
     required |-> 4]

create_cas_validate_url(cas_url, cas_route_prefix, service, ticket) ==
    create_url(cas_url, <<cas_route_prefix, "validate">>,
               << <<"service", service>>, <<"ticket", ticket>>, <<"renew", None_>> >>)

create_cas_serviceValidate_url(cas_url, cas_route_prefix, service, ticket) ==
    create_url(cas_url, <<cas_route_prefix, "serviceValidate">>,
               << <<"service", service>>, <<"ticket", ticket>>,
                  <<"pgtUrl", None_>>, <<"renew", None_>> >>)

(***************************************************************************)
(* Responses of the CAS server, as urlopen hands them to a parser.         *)
(* A body is either plain text (its lines as readlines() returns them,     *)
(* each a sequence of characters; not well-formed XML), an XML document    *)
(* (its root element; its source lines start with "<"), or a stream whose  *)
(* read fails.  An element is [tag, text, code, children]: tag is          *)
(* <<namespace, local name>>, code the value of its code attribute.        *)
(***************************************************************************)
CasNs == "http://www.yale.edu/tp/cas"

Elem(ns, local, text, code, children) ==
    [tag |-> <<ns, local>>, text |-> text, code |-> code, children |-> children]

Leaf(local, text) == Elem(CasNs, local, text, None_, <<>>)

TextBody(lines) == [kind |-> "text", lines |-> lines]

XmlBody(root) == [kind |-> "xml", root |-> root,
                  lines |-> << <<"<", "x", ">", "\n">> >>]

Unreadable == [kind |-> "unreadable"]

Whitespace == {" ", "\n", "\t", "\r", "\\x0b", "\\x0c"}

RECURSIVE lstrip(_)
lstrip(s) == IF s # <<>> /\ Head(s) \in Whitespace THEN lstrip(Tail(s)) ELSE s

RECURSIVE rstrip(_)
rstrip(s) ==
    IF s # <<>> /\ s[Len(s)] \in Whitespace THEN rstrip(SubSeq(s, 1, Len(s) - 1)) ELSE s

\* only the trailing whitespace removed
strip_trailing_only(s) == rstrip(s)

\* bytes.strip()
strip(s) == rstrip(lstrip(s))

\* bytes.decode('utf8', 'ignore'): bytes that are not valid UTF-8 are dropped
InvalidByte == "\\xff"

decode(s) == SelectSeq(s, LAMBDA c : c # InvalidByte)

\* Element.find('cas:<local>'): the first child of the element with that tag
FindChild(el, local) ==
    LET hits == SelectSeq(el.children, LAMBDA c : c.tag = <<CasNs, local>>)
    IN  IF hits = <<>> THEN <<>> ELSE <<Head(hits)>>

\* Element.find('*/cas:<local>'): the first child, in document order, of any
\* child of the element, with that tag
RECURSIVE FindGrandchildFrom(_, _, _)
FindGrandchildFrom(el, local, i) ==
    IF i > Len(el.children) THEN <<>>
    ELSE LET hit == FindChild(el.children[i], local)
         IN  IF hit # <<>> THEN hit ELSE FindGrandchildFrom(el, local, i + 1)

\* the path 'cas:<local>' instead of '*/cas:<local>'
FindGrandchild_direct(el, local) == FindChild(el, local)

FindGrandchild(el, local) == FindGrandchildFrom(el, local, 1)

\* A parser's result: what it returned or raised, the session as it left it,
\* and whether it closed the response stream.
ParserResult(ret, sess, closed) == [ret |-> ret, session |-> sess, closed |-> closed]

_validate_cas1(response, sess) ==
    IF response.kind = "unreadable" THEN ParserResult("IOError", sess, FALSE)
    ELSE IF Len(response.lines) # 2
    THEN \* the tuple unpacking raises ValueError, which is caught
         ParserResult("False", sess, TRUE)
    ELSE LET is_valid == strip(response.lines[1]) = <<"y", "e", "s">>
             username == decode(strip(response.lines[2]))
         IN  IF is_valid
             THEN ParserResult("True", SetItem(sess, CAS_USERNAME_SESSION_KEY, username), TRUE)
             ELSE ParserResult("False", sess, TRUE)

\* The not-valid branch shared by _validate_cas2 and _validate_cas3: the log
\* line is built by concatenating str with the data read (error is None; the
\* data is bytes under Python 3, where str + bytes raises TypeError), or with
\* the code attribute and the text of the failure element (either may be None).
FailureBranch(tree, sess) ==
    LET error == FindChild(tree, "authenticationFailure")
    IN  IF error = <<>>
        THEN ParserResult(IF python3 THEN "TypeError" ELSE "False", sess, TRUE)
        ELSE IF error[1].code = None_ \/ error[1].text = None_
        THEN ParserResult("TypeError", sess, TRUE)
        ELSE ParserResult("False", sess, TRUE)

_validate_cas2(response, sess) ==
    IF response.kind = "unreadable" THEN ParserResult("IOError", sess, TRUE)
    ELSE IF response.kind # "xml" THEN ParserResult("ParseError", sess, TRUE)
    ELSE LET tree == response.root
             user == FindGrandchild(tree, "user")
         IN  IF user # <<>>
             THEN ParserResult("True",
                      SetItem(sess, CAS_USERNAME_SESSION_KEY, user[1].text), TRUE)
             ELSE FailureBranch(tree, sess)

\* tag.split("}").pop(): the local name of a qualified tag
LocalName(tag) == tag[2]

\* An attribute value: a scalar text, or a list of texts
Scalar(t) == [list |-> FALSE, texts |-> <<t>>]

AsList(ts) == [list |-> TRUE, texts |-> ts]

\* the second occurrence put in front of the first
FoldAttr_reversed(attributes, attr) ==
    LET tag == LocalName(attr.tag)
    IN  IF tag \in DOMAIN attributes
        THEN IF attributes[tag].list
             THEN SetItem(attributes, tag, AsList(Append(attributes[tag].texts, attr.text)))
             ELSE SetItem(attributes, tag, AsList(<<attr.text, attributes[tag].texts[1]>>))
        ELSE SetItem(attributes, tag, Scalar(attr.text))

\* One turn of the loop over the children of the attributes element
FoldAttr(attributes, attr) ==
    LET tag == LocalName(attr.tag)
    IN  IF tag \in DOMAIN attributes
        THEN IF attributes[tag].list
             THEN SetItem(attributes, tag, AsList(Append(attributes[tag].texts, attr.text)))
             ELSE SetItem(attributes, tag, AsList(<<attributes[tag].texts[1], attr.text>>))
        ELSE SetItem(attributes, tag, Scalar(attr.text))

RECURSIVE FoldAttrs(_, _, _)
FoldAttrs(attributes, attrs, i) ==
    IF i > Len(attrs) THEN attributes
    ELSE FoldAttrs(FoldAttr(attributes, attrs[i]), attrs, i + 1)

EmptyDict == [k \in {} |-> Scalar("")]

_validate_cas3(response, sess) ==
    IF response.kind = "unreadable" THEN ParserResult("IOError", sess, TRUE)
    ELSE IF response.kind # "xml" THEN ParserResult("ParseError", sess, TRUE)
    ELSE LET tree == response.root
             user == FindGrandchild(tree, "user")
             attrs == FindGrandchild(tree, "attributes")
         IN  IF user # <<>>
             THEN IF attrs = <<>>
                  THEN \* iterating None raises TypeError before any session write
                       ParserResult("TypeError", sess, TRUE)
                  ELSE ParserResult("True",
                           SetItem(SetItem(sess, CAS_USERNAME_SESSION_KEY, user[1].text),
                                   CAS_ATTRIBUTES_SESSION_KEY,
                                   FoldAttrs(EmptyDict, attrs[1].children, 1)),
                           TRUE)
             ELSE FailureBranch(tree, sess)

\* a dispatch table with an entry for every configurable version
_PROTOCOLS_all == {"1", "2", "3", "4"}

\* _PROTOCOLS: the version strings that have a parser
_PROTOCOLS == {"1", "2", "3"}

_validate(version, response, sess) ==
    CASE version = "1" -> _validate_cas1(response, sess)
      [] version = "2" -> _validate_cas2(response, sess)
      [] version = "3" -> _validate_cas3(response, sess)

(***************************************************************************)
(* What the CAS server can answer to urlopen: a transport failure          *)
(* (urlopen raises) or a response stream with one of these bodies.         *)
(***************************************************************************)
Line(chars) == chars \o <<"\n">>

Yes == <<"y", "e", "s">>

No == <<"n", "o">>

Bob == <<"b", "o", "b">>

Success(children) == Elem(CasNs, "authenticationSuccess", None_, None_, children)

ServiceResponse(children) == Elem(CasNs, "serviceResponse", None_, None_, children)

TextBodies ==
    { TextBody(<<Line(Yes), Line(Bob)>>),
      TextBody(<<Line(No), Line(<<>>)>>),
      TextBody(<<Line(Yes)>>) }

XmlBodies ==
    { XmlBody(ServiceResponse(<<Success(<<Leaf("user", "bob")>>)>>)),
      XmlBody(ServiceResponse(<<Success(<<Leaf("user", "bob"),
          Elem(CasNs, "attributes", None_, None_,
               <<Leaf("affiliation", "staff"), Leaf("affiliation", "faculty")>>)>>)>>)),
      XmlBody(ServiceResponse(<<Elem(CasNs, "authenticationFailure",
                                    "not recognized", "INVALID_TICKET", <<>>)>>)) }

TransportError == [kind |-> "transport_error"]

Responses == {TransportError} \cup TextBodies \cup XmlBodies \cup {Unreadable}

(***************************************************************************)
(* routing.py: validate.  Its result records what it returned or raised,   *)
(* the session as it left it, the requests it issued to the CAS server,    *)
(* and the orchestrator states it went through.                            *)
(***************************************************************************)
ValidateResult(call, outcome, sess, requests, trace) ==
    [version |-> call.version, ticket |-> call.ticket, pre |-> call.pre,
     response |-> call.response,
     outcome |-> outcome, session |-> sess, requests |-> requests, trace |-> trace]

\* the call at routing.py:89: four positional arguments and version=
validate_url_call == [npos |-> 4, kw |-> {"version"}]

validate(version, ticket, sess, response) ==
    LET call == [version |-> version, ticket |-> ticket, pre |-> sess,
                 response |-> response]
    IN  IF version \notin _PROTOCOLS
        THEN ValidateResult(call, "ValueError", sess, <<>>, <<"Unvalidated">>)
        ELSE IF ~Binds(create_cas_validate_url_sig, validate_url_call)
        THEN ValidateResult(call, "TypeError", sess, <<>>, <<"Unvalidated">>)
        ELSE LET cas_validate_url ==
                     create_cas_validate_url(CAS_SERVER, CAS_ROUTE_PREFIX, LoginUrl, ticket)
             IN  IF response.kind = "transport_error"
                 THEN ValidateResult(call, "URLError", sess, <<cas_validate_url>>,
                                     <<"Unvalidated">>)
                 ELSE LET r == _validate(version, response, sess)
                      IN  ValidateResult(call, r.ret, r.session, <<cas_validate_url>>,
                              <<"Unvalidated", "ResponseReceived">> \o
                              (CASE r.ret = "True" -> <<"Valid">>
                                 [] r.ret = "False" -> <<"Invalid">>
                                 [] OTHER -> <<>>))

(***************************************************************************)
(* routing.py: the request handlers.  A handler's result is the session as *)
(* it left it, the response (a redirect, or the exception that left the    *)
(* handler) and the validate calls it made.                                *)
(***************************************************************************)
NoUrl == [base |-> None_, path |-> <<>>, query |-> <<>>]

\* flask.url_for(endpoint) of an application route
url_for(endpoint) == [base |-> AfterLoginUrl, path |-> <<>>, query |-> <<>>]

Redirect(url) == [kind |-> "redirect", url |-> url, exc |-> None_]

Raised(exc) == [kind |-> "error", url |-> NoUrl, exc |-> exc]

HandlerResult(sess, resp, calls) == [session |-> sess, resp |-> resp, calls |-> calls]

login(ticket, sess, version, response) ==
    LET redirect_url == create_cas_login_url(CAS_SERVER, CAS_ROUTE_PREFIX, LoginUrl)
        s1 == IF ticket # None_ THEN SetItem(sess, CAS_TOKEN_SESSION_KEY, ticket) ELSE sess
    IN  IF CAS_TOKEN_SESSION_KEY \in DOMAIN s1
        THEN LET v == validate(version, s1[CAS_TOKEN_SESSION_KEY], s1, response)
             IN  CASE v.outcome = "True" ->
                          HandlerResult(v.session, Redirect(url_for(CAS_AFTER_LOGIN)), <<v>>)
                   [] v.outcome = "False" ->
                          HandlerResult(DelItem(v.session, CAS_TOKEN_SESSION_KEY),
                                        Redirect(redirect_url), <<v>>)
                   [] OTHER -> HandlerResult(v.session, Raised(v.outcome), <<v>>)
        ELSE HandlerResult(s1, Redirect(redirect_url), <<>>)

\* the call at routing.py:64: four positional arguments
logout_url_call == [npos |-> 4, kw |-> {}]

logout(sess, version, return_url) ==
    LET s1 == IF CAS_USERNAME_SESSION_KEY \in DOMAIN sess
              THEN DelItem(sess, CAS_USERNAME_SESSION_KEY) ELSE sess
    IN  IF ~Binds(create_cas_logout_url_sig, logout_url_call)
        THEN HandlerResult(s1, Raised("TypeError"), <<>>)
        ELSE HandlerResult(s1,
                 Redirect(create_cas_logout_url(CAS_SERVER, CAS_ROUTE_PREFIX, return_url)),
                 <<>>)

(***************************************************************************)
(* The application: one client session, a sequence of requests.            *)
(***************************************************************************)
\* The session that reaches the next request: Flask saves the session with
\* the response; with app.testing the exception propagates and no response
\* is built.
Saved(old, r) == IF r.resp.kind = "error" /\ testing THEN old ELSE r.session

Observe(op, ticket, r) ==
    [op |-> op, ticket |-> ticket, pre |-> cookie, resp |-> r.resp, calls |-> r.calls]

NoRequest == [op |-> "none", ticket |-> None_, pre |-> EmptySession,
              resp |-> Raised(None_), calls |-> <<>>]

NoCall == [fn |-> "none"]

Init ==
    /\ CAS_VERSION \in Versions
    /\ CAS_LOGOUT_RETURN_URL \in ReturnUrls
    /\ testing \in BOOLEAN
    /\ cookie = EmptySession
    /\ session = EmptySession
    /\ last = NoRequest
    /\ python3 \in BOOLEAN
    /\ applied = NoCall

Login(ticket, response) ==
    LET r == login(ticket, cookie, CAS_VERSION, response)
    IN  /\ session' = r.session
        /\ cookie' = Saved(cookie, r)
        /\ last' = Observe("login", ticket, r)
        /\ UNCHANGED <<CAS_VERSION, CAS_LOGOUT_RETURN_URL, testing, python3, applied>>

Logout ==
    LET r == logout(cookie, CAS_VERSION, CAS_LOGOUT_RETURN_URL)
    IN  /\ session' = r.session
        /\ cookie' = Saved(cookie, r)
        /\ last' = Observe("logout", None_, r)
        /\ UNCHANGED <<CAS_VERSION, CAS_LOGOUT_RETURN_URL, testing, python3, applied>>

Next ==
    \/ \E ticket \in Tickets \cup {None_}, response \in Responses : Login(ticket, response)
    \/ Logout

Spec == Init /\ [][Next]_vars

(***************************************************************************)
(* The parsers called on their own: a response stream and a session are    *)
(* drawn, the parser of the configured version is applied once.            *)
(***************************************************************************)
MaxLines == 3

MaxAttrs == 3

RECURSIVE SeqsUpTo(_, _)
SeqsUpTo(S, n) ==
    IF n = 0 THEN {<<>>}
    ELSE LET shorter == SeqsUpTo(S, n - 1)
         IN  shorter \cup {Append(q, x) : q \in {r \in shorter : Len(r) = n - 1}, x \in S}

\* what a line of a CAS 1.0 body can hold before its line feed
LineContents ==
    { Yes, <<" ">> \o Yes, <<"Y", "E", "S">>, No, <<>>,
      <<" ">> \o Bob \o <<" ", "\r">>, <<"b", InvalidByte, "o">> }

\* readlines(): every line ends with its line feed, the last one may not
V1Bodies ==
    {TextBody(lines) : lines \in SeqsUpTo({Line(c) : c \in LineContents}, MaxLines)}
        \cup {TextBody(<<Line(Yes), Bob>>), TextBody(<<Yes>>)}

OtherNs == "http://example.org/other"

Attributes(children) == Elem(CasNs, "attributes", None_, None_, children)

AttrChildren ==
    { Leaf("affiliation", "staff"), Leaf("affiliation", "faculty"),
      Leaf("email", "jdoe"), Elem(OtherNs, "email", "other", None_, <<>>) }

AttributeBodies ==
    {XmlBody(ServiceResponse(<<Success(<<Leaf("user", "bob"), Attributes(kids)>>)>>)) :
         kids \in SeqsUpTo(AttrChildren, MaxAttrs)}

Failure(text, code) == Elem(CasNs, "authenticationFailure", text, code, <<>>)

ShapeBodies ==
    { \* the user element as a child of the root, and three levels down
      XmlBody(ServiceResponse(<<Leaf("user", "bob")>>)),
      XmlBody(ServiceResponse(<<Success(<<Elem(CasNs, "wrapper", None_, None_,
                                              <<Leaf("user", "bob")>>)>>)>>)),
      \* an empty user element, alone and before an attributes element
      XmlBody(ServiceResponse(<<Success(<<Leaf("user", None_)>>)>>)),
      XmlBody(ServiceResponse(<<Success(<<Leaf("user", None_), Attributes(<<>>)>>)>>)),
      \* two user elements; a user element of another namespace
      XmlBody(ServiceResponse(<<Success(<<Leaf("user", "bob"), Leaf("user", "eve")>>)>>)),
      XmlBody(ServiceResponse(<<Success(<<Elem(OtherNs, "user", "bob", None_, <<>>)>>)>>)),
      \* neither element; a failure element with no code, with no text
      XmlBody(ServiceResponse(<<>>)),
      XmlBody(ServiceResponse(<<Success(<<>>)>>)),
      XmlBody(ServiceResponse(<<Failure("not recognized", None_)>>)),
      XmlBody(ServiceResponse(<<Failure(None_, "INVALID_TICKET")>>)) }

ParserInputs == V1Bodies \cup XmlBodies \cup AttributeBodies \cup ShapeBodies \cup {Unreadable}

\* a fresh session, and one that holds the identity of an earlier login
PriorSessions ==
    { EmptySession,
      SetItem(SetItem(EmptySession, CAS_USERNAME_SESSION_KEY, "alice"),
              CAS_ATTRIBUTES_SESSION_KEY, SetItem(EmptyDict, "email", Scalar("alice"))) }

InitParse ==
    /\ CAS_VERSION \in _PROTOCOLS
    /\ CAS_LOGOUT_RETURN_URL = None_
    /\ testing = FALSE
    /\ cookie = EmptySession
    /\ session \in PriorSessions
    /\ last = NoRequest
    /\ python3 \in BOOLEAN
    /\ applied = NoCall

Parse(response) ==
    /\ applied = NoCall
    /\ LET r == _validate(CAS_VERSION, response, session)
       IN  /\ applied' = [fn |-> "parse", version |-> CAS_VERSION, response |-> response,
                          pre |-> session, result |-> r]
           /\ session' = r.session
    /\ UNCHANGED <<CAS_VERSION, CAS_LOGOUT_RETURN_URL, testing, cookie, last, python3>>

NextParse == \E response \in ParserInputs : Parse(response)

SpecParse == InitParse /\ [][NextParse]_vars

(***************************************************************************)
(* create_url on text (cas_urls.py:18-63).  A string is a sequence of      *)
(* characters; the scheme and authority of the base are one character to   *)
(* it (urljoin never looks inside them), an escape such as %20 is one too. *)
(* A value that may be None is [none, s]; a path is None, a string or a    *)
(* list of such values.  A result is [raised, url].                        *)
(***************************************************************************)
MaxSegs == 3
MaxPairs == 3

Origin == "http://localhost:5000"

PyNone == [none |-> TRUE, s |-> <<>>]

Str(s) == [none |-> FALSE, s |-> s]

bool(x) == ~x.none /\ x.s # <<>>

PathNone == [kind |-> "None", s |-> <<>>, segs |-> <<>>]

PathStr(s) == [kind |-> "str", s |-> s, segs |-> <<>>]

PathList(segs) == [kind |-> "list", s |-> <<>>, segs |-> segs]

RECURSIVE rstrip_slash(_)
rstrip_slash(s) ==
    IF s # <<>> /\ s[Len(s)] = "/" THEN rstrip_slash(SubSeq(s, 1, Len(s) - 1)) ELSE s

RECURSIVE lstrip_slash(_)
lstrip_slash(s) == IF s # <<>> /\ Head(s) = "/" THEN lstrip_slash(Tail(s)) ELSE s

\* the two segments put side by side with a slash, nothing stripped
join_unstripped(l, r) == l \o <<"/">> \o r

\* lambda l, r: '{}/{}'.format(l.rstrip('/'), r.lstrip('/'))
join(l, r) == rstrip_slash(l) \o <<"/">> \o lstrip_slash(r)

RECURSIVE reduce_from(_, _)
reduce_from(acc, rest) ==
    IF rest = <<>> THEN acc ELSE reduce_from(join(acc, Head(rest)), Tail(rest))

\* functools.reduce without an initial value: an empty iterable raises
reduce(items) ==
    IF items = <<>>
    THEN [raised |-> "TypeError", value |-> <<>>]
    ELSE [raised |-> None_, value |-> reduce_from(Head(items), Tail(items))]

always_safe ==
    {"a", "b", "c", "e", "g", "h", "i", "k", "l", "m", "n", "o", "p", "r", "s", "t",
     "u", "v", "w", "x", "y", "1"}

percent(c) ==
    CASE c = " " -> "%20"
      [] c = "/" -> "%2F"
      [] c = "?" -> "%3F"
      [] c = "&" -> "%26"
      [] c = "=" -> "%3D"
      [] c = "+" -> "%2B"
      [] OTHER   -> c

\* urllib quote(s): safe='/'
quote(s) ==
    [i \in 1..Len(s) |-> IF s[i] \in always_safe \cup {"/"} THEN s[i] ELSE percent(s[i])]

\* urllib quote_plus(s): a space becomes '+', nothing else is safe
quote_plus(s) ==
    [i \in 1..Len(s) |->
        IF s[i] \in always_safe THEN s[i] ELSE IF s[i] = " " THEN "+" ELSE percent(s[i])]

RECURSIVE urlencode(_)
urlencode(query) ==
    IF query = <<>> THEN <<>>
    ELSE LET pair == quote_plus(Head(query)[1]) \o <<"=">> \o quote_plus(Head(query)[2].s)
         IN  IF Tail(query) = <<>> THEN pair
             ELSE pair \o <<"&">> \o urlencode(Tail(query))

\* s.find(c) + 1
index_of(s, c) ==
    IF \E i \in 1..Len(s) : s[i] = c
    THEN CHOOSE i \in 1..Len(s) : s[i] = c /\ \A j \in 1..(i - 1) : s[j] # c
    ELSE 0

RECURSIVE split(_, _)
split(s, sep) ==
    LET i == index_of(s, sep)
    IN  IF i = 0 THEN <<s>>
        ELSE <<SubSeq(s, 1, i - 1)>> \o split(SubSeq(s, i + 1, Len(s)), sep)

RECURSIVE join_with(_, _)
join_with(parts, sep) ==
    IF parts = <<>> THEN <<>>
    ELSE IF Tail(parts) = <<>> THEN Head(parts)
    ELSE Head(parts) \o <<sep>> \o join_with(Tail(parts), sep)

\* the reference put after the base as it is
urljoin_append(base, url) == base \o url

\* urllib urljoin(base, url) for an http base and a reference without a
\* scheme, a fragment, parameters or dot segments
urljoin(base, url) ==
    IF url = <<>> THEN base
    ELSE IF Len(url) >= 2 /\ url[1] = "/" /\ url[2] = "/" THEN <<"http:">> \o url
    ELSE
    LET rest   == Tail(base)
        bq     == index_of(rest, "?")
        bpath  == IF bq = 0 THEN rest ELSE SubSeq(rest, 1, bq - 1)
        bquery == IF bq = 0 THEN <<>> ELSE SubSeq(rest, bq + 1, Len(rest))
        uq     == index_of(url, "?")
        path   == IF uq = 0 THEN url ELSE SubSeq(url, 1, uq - 1)
        query  == IF uq = 0 THEN <<>> ELSE SubSeq(url, uq + 1, Len(url))
        urlunparse(p, q) ==
            <<Head(base)>> \o p \o (IF q = <<>> THEN <<>> ELSE <<"?">> \o q)
        parts  == split(bpath, "/")
        base_parts ==
            IF parts[Len(parts)] # <<>> THEN SubSeq(parts, 1, Len(parts) - 1) ELSE parts
        all    == base_parts \o split(path, "/")
        segments ==
            IF Head(path) = "/" THEN split(path, "/")
            ELSE IF Len(all) < 2 THEN all
            ELSE <<Head(all)>>
                     \o SelectSeq(SubSeq(all, 2, Len(all) - 1), LAMBDA seg : seg # <<>>)
                     \o <<all[Len(all)]>>
        resolved == join_with(segments, "/")
        rooted ==
            IF resolved = <<>> THEN <<"/">>
            ELSE IF Head(resolved) # "/" THEN <<"/">> \o resolved
            ELSE resolved
    IN  IF path = <<>>
        THEN urlunparse(bpath, IF query = <<>> THEN bquery ELSE query)
        ELSE urlunparse(rooted, query)

\* lambda x: bool(x)
keep_segment(x) == bool(x)

\* lambda pair: bool(pair[1]), a pair with an empty value dropped too
keep_pair_truthy(pair) == bool(pair[2])

\* lambda pair: pair[1] is not None
keep_pair(pair) == ~pair[2].none

UrlResult(raised, url) == [raised |-> raised, url |-> url]

create_url_text(base, path, query) ==
    LET joined ==
            IF path.kind = "list"
            THEN LET kept == SelectSeq(path.segs, keep_segment)
                 IN  reduce([i \in 1..Len(kept) |-> kept[i].s])
            ELSE [raised |-> None_, value |-> path.s]
        url1  == IF joined.value # <<>> THEN urljoin(base, quote(joined.value)) ELSE base
        kept_query == SelectSeq(query, keep_pair)
    IN  IF joined.raised # None_
        THEN UrlResult(joined.raised, <<>>)
        ELSE UrlResult(None_, urljoin(url1, <<"?">> \o urlencode(kept_query)))

create_cas_login_url_text(cas_url, cas_route_prefix, service, renew, gateway, method) ==
    create_url_text(cas_url, PathList(<<cas_route_prefix, Str(<<"l", "o", "g", "i", "n">>)>>),
                    << <<<<"s", "e", "r", "v", "i", "c", "e">>, service>>,
                       <<<<"r", "e", "n", "e", "w">>, renew>>,
                       <<<<"g", "a", "t", "e", "w", "a", "y">>, gateway>>,
                       <<<<"m", "e", "t", "h", "o", "d">>, method>> >>)

(***************************************************************************)
(* The arguments create_url is applied to.                                 *)
(***************************************************************************)
Bases ==
    { <<Origin>>, <<Origin, "/">>, <<Origin, "/", "x", "/">>, <<Origin, "/", "x", "/", "y">> }

Segments ==
    { PyNone, Str(<<>>), Str(<<"a">>), Str(<<"/", "a">>), Str(<<"a", "/">>),
      Str(<<"/", "a", "/">>), Str(<<"/">>), Str(<<"b", " ">>) }

Paths ==
    {PathNone}
        \cup {PathStr(s) : s \in {<<>>, <<"a">>, <<"/", "a">>, <<"a", " ", "b">>, <<"a", "/", "b">>}}
        \cup {PathList(segs) : segs \in SeqsUpTo(Segments, MaxSegs)}

FewPaths ==
    { PathNone, PathStr(<<"a", "/", "b">>), PathList(<<>>),
      PathList(<<Str(<<"a">>), Str(<<"b", " ">>)>>) }

Pairs ==
    {<<key, value>> : key \in {<<"k">>, <<"a", "=">>},
                      value \in {PyNone, Str(<<>>), Str(<<"v">>), Str(<<"a", " ", "/", "&">>)}}

Queries == SeqsUpTo(Pairs, MaxPairs)

FewQueries ==
    { <<>>, << <<<<"k">>, PyNone>> >>, << <<<<"k">>, Str(<<"v">>)>> >> }

Flags == {PyNone, Str(<<>>), Str(<<"t", "r", "u", "e">>)}

Services == {PyNone, Str(<<"h", "/", "l", "o", "g", "i", "n">>)}

Prefixes == {Str(<<"c", "a", "s">>), Str(<<"/", "c", "a", "s", "/">>)}

InitUrl ==
    /\ CAS_VERSION = "1"
    /\ CAS_LOGOUT_RETURN_URL = None_
    /\ testing = FALSE
    /\ cookie = EmptySession
    /\ session = EmptySession
    /\ last = NoRequest
    /\ python3 \in BOOLEAN
    /\ applied = NoCall

Build(base, path, query) ==
    /\ applied = NoCall
    /\ applied' = [fn |-> "create_url", base |-> base, path |-> path, query |-> query,
                   result |-> create_url_text(base, path, query)]
    /\ UNCHANGED <<CAS_VERSION, CAS_LOGOUT_RETURN_URL, testing, cookie, session, last, python3>>

BuildLogin(cas_url, cas_route_prefix, service, renew, gateway, method) ==
    /\ applied = NoCall
    /\ applied' = [fn |-> "create_cas_login_url", base |-> cas_url,
                   path |-> PathList(<<cas_route_prefix, Str(<<"l", "o", "g", "i", "n">>)>>),
                   query |-> << <<<<"s", "e", "r", "v", "i", "c", "e">>, service>>,
                                <<<<"r", "e", "n", "e", "w">>, renew>>,
                                <<<<"g", "a", "t", "e", "w", "a", "y">>, gateway>>,
                                <<<<"m", "e", "t", "h", "o", "d">>, method>> >>,
                   result |-> create_cas_login_url_text(cas_url, cas_route_prefix, service,
                                                        renew, gateway, method)]
    /\ UNCHANGED <<CAS_VERSION, CAS_LOGOUT_RETURN_URL, testing, cookie, session, last, python3>>

\* one call per behaviour: nothing is applied after the first
BuildWithPath ==
    /\ applied = NoCall
    /\ \E base \in Bases, path \in Paths, query \in FewQueries : Build(base, path, query)

BuildWithQuery ==
    /\ applied = NoCall
    /\ \E base \in Bases, path \in FewPaths, query \in Queries : Build(base, path, query)

BuildLoginUrl ==
    /\ applied = NoCall
    /\ \E cas_url \in Bases, cas_route_prefix \in Prefixes, service \in Services,
          renew \in Flags, gateway \in Flags, method \in Flags :
            BuildLogin(cas_url, cas_route_prefix, service, renew, gateway, method)

NextUrl == BuildWithPath \/ BuildWithQuery \/ BuildLoginUrl

SpecUrl == InitUrl /\ [][NextUrl]_vars

(***************************************************************************)
(* Properties.                                                             *)
(***************************************************************************)
Supported == {"1", "2", "3"}

LoginRequest == last.op = "login"

LogoutRequest == last.op = "logout"

\* the validate call of the last request, when it made one
Called == last.calls # <<>>

TheCall == last.calls[1]

\* what the parser of the configured version makes of the response the CAS
\* server has for that call
Verdict(v) == _validate(v.version, v.response, v.pre)

Readable(v) == v.response.kind \in {"text", "xml"}

Has(sess, key) == key \in DOMAIN sess

SameIdentity(a, b) ==
    \A key \in {CAS_USERNAME_SESSION_KEY, CAS_ATTRIBUTES_SESSION_KEY} :
        /\ Has(a, key) <=> Has(b, key)
        /\ Has(a, key) => a[key] = b[key]

\* http://cas.server.com/cas/login?service=http%3A%2F%2Flocalhost%2Flogin%2F
CasLoginRedirect ==
    [kind |-> "redirect",
     url |-> [base |-> "http://cas.server.com", path |-> <<"cas", "login">>,
              query |-> << <<"service", "http://localhost/login/">> >>],
     exc |-> None_]

\* http://localhost/
AfterLoginRedirect ==
    [kind |-> "redirect",
     url |-> [base |-> "http://localhost/", path |-> <<>>, query |-> <<>>],
     exc |-> None_]

\* C1: a call of validate under a supported version returns what the parser
\* of that version makes of the response; when it returns False the username
\* and attributes keys hold what they held before the call, when it returns
\* True the session holds exactly what the parser wrote (the parsed username
\* and, for version 3, the folded attributes).
C1_ValidateWritesExactlyParsed ==
    (Called /\ TheCall.version \in Supported /\ Readable(TheCall)) =>
        /\ Verdict(TheCall).ret \in {"True", "False"} =>
               TheCall.outcome = Verdict(TheCall).ret
        /\ TheCall.outcome = "False" => SameIdentity(TheCall.session, TheCall.pre)
        /\ TheCall.outcome = "True" => TheCall.session = Verdict(TheCall).session

\* C2: after a login request whose ticket the CAS server rejects, the session
\* holds neither the token key nor the username key.
C2_FailedLoginClearsTokenAndUsername ==
    (LoginRequest /\ Called /\ TheCall.version \in Supported /\ Readable(TheCall)
        /\ Verdict(TheCall).ret = "False") =>
        /\ ~Has(session, CAS_TOKEN_SESSION_KEY)
        /\ ~Has(session, CAS_USERNAME_SESSION_KEY)

\* C3: a login request with a ticket parameter validates that ticket; when
\* the CAS server accepts it the response redirects to the post-login target
\* and the token key holds the ticket; when it rejects it the response
\* redirects to the CAS login URL with service = the login endpoint.
C3_LoginWithTicket ==
    (LoginRequest /\ last.ticket # None_ /\ CAS_VERSION \in Supported) =>
        /\ Called /\ TheCall.ticket = last.ticket
        /\ (Readable(TheCall) /\ Verdict(TheCall).ret = "True") =>
               /\ last.resp = AfterLoginRedirect
               /\ Has(session, CAS_TOKEN_SESSION_KEY)
               /\ session[CAS_TOKEN_SESSION_KEY] = last.ticket
        /\ (Readable(TheCall) /\ Verdict(TheCall).ret = "False") =>
               last.resp = CasLoginRedirect

\* C4 as stated: every login request without a ticket parameter is answered
\* with the redirect to the CAS login URL, whatever the session holds.
C4_NoTicketAlwaysCasLogin ==
    (LoginRequest /\ last.ticket = None_) => last.resp = CasLoginRedirect

\* C4 as amended: a login request without a ticket parameter, in a session
\* that holds no token, is answered with the redirect to the CAS login URL
\* (service = the login endpoint); it validates nothing and leaves the
\* session as it was.
C4_NoTicketNoTokenCasLogin ==
    (LoginRequest /\ last.ticket = None_ /\ ~Has(last.pre, CAS_TOKEN_SESSION_KEY)) =>
        /\ last.resp = CasLoginRedirect
        /\ ~Called
        /\ session = last.pre

C4_Witness ==
    /\ LoginRequest /\ last.ticket = None_ /\ ~Has(last.pre, CAS_TOKEN_SESSION_KEY)
    /\ last.resp.kind = "redirect"

\* C5: a login request without a ticket parameter, in a session that holds a
\* token, validates the stored token; when the CAS server accepts it the
\* parsed username is stored under the username key and the token key keeps
\* the same token.
C5_StoredTokenRevalidated ==
    (LoginRequest /\ last.ticket = None_ /\ Has(last.pre, CAS_TOKEN_SESSION_KEY)
        /\ CAS_VERSION \in Supported) =>
        /\ Called /\ TheCall.ticket = last.pre[CAS_TOKEN_SESSION_KEY]
        /\ (Readable(TheCall) /\ Verdict(TheCall).ret = "True") =>
               /\ Has(session, CAS_USERNAME_SESSION_KEY)
               /\ session[CAS_USERNAME_SESSION_KEY]
                      = Verdict(TheCall).session[CAS_USERNAME_SESSION_KEY]
               /\ Has(session, CAS_TOKEN_SESSION_KEY)
               /\ session[CAS_TOKEN_SESSION_KEY] = last.pre[CAS_TOKEN_SESSION_KEY]

\* C6: after a logout request the session holds neither the username key nor
\* the attributes key, and the response is a redirect to the CAS logout URL.
C6_LogoutClearsIdentityAndRedirects ==
    LogoutRequest =>
        /\ ~Has(session, CAS_USERNAME_SESSION_KEY)
        /\ ~Has(session, CAS_ATTRIBUTES_SESSION_KEY)
        /\ last.resp.kind = "redirect"
        /\ last.resp.url.base = "http://cas.server.com"
        /\ last.resp.url.path = <<"cas", "logout">>

\* C7: the logout redirect carries the configured return URL under the
\* parameter url for version 1 and under service for versions 2 and 3.
C7_LogoutParameterByVersion ==
    (LogoutRequest /\ CAS_VERSION \in Supported /\ CAS_LOGOUT_RETURN_URL # None_) =>
        /\ last.resp.kind = "redirect"
        /\ last.resp.url.query =
               << <<IF CAS_VERSION = "1" THEN "url" ELSE "service",
                    CAS_LOGOUT_RETURN_URL>> >>

\* C8: under a version that is not 1, 2 or 3, a call of validate raises the
\* configuration error, issues no request to the CAS server and writes
\* nothing to the session.
C8_UnsupportedVersionRaisesFirst ==
    (Called /\ TheCall.version \notin {"1", "2", "3"}) =>
        /\ TheCall.outcome = "ValueError"
        /\ TheCall.requests = <<>>
        /\ TheCall.session = TheCall.pre
        /\ last.resp = [kind |-> "error", url |-> NoUrl, exc |-> "ValueError"]

C8_Witness ==
    /\ LoginRequest /\ Called
    /\ TheCall.version = "4"
    /\ TheCall.outcome = "ValueError"

\* C9: a login request whose validation fails (the request to the CAS server
\* fails, or the response is not one the parser accepts) ends with validate
\* yielding False and the redirect to the CAS login URL, never an exception.
C9_FailureRedirectsToCasLogin ==
    (LoginRequest /\ Called /\ TheCall.version \in Supported
        /\ (Readable(TheCall) => Verdict(TheCall).ret # "True")) =>
        /\ TheCall.outcome = "False"
        /\ last.resp = CasLoginRedirect

\* C10: a call of validate under a supported version issues at most one
\* request to the CAS server and, given a response its parser decides, goes
\* Unvalidated -> ResponseReceived -> Valid or Invalid, each once.
C10_OneRequestOnePass ==
    (Called /\ TheCall.version \in Supported) =>
        /\ Len(TheCall.requests) <= 1
        /\ (Readable(TheCall) /\ Verdict(TheCall).ret \in {"True", "False"}) =>
               /\ Len(TheCall.requests) = 1
               /\ TheCall.trace \in
                      { <<"Unvalidated", "ResponseReceived", "Valid">>,
                        <<"Unvalidated", "ResponseReceived", "Invalid">> }

(***************************************************************************)
(* Properties of the parsers (SpecParse).                                  *)
(***************************************************************************)
Parsed == applied.fn = "parse"

ParsedBy(version) == Parsed /\ applied.version = version

IsCas(el, local) == el.tag = <<"http://www.yale.edu/tp/cas", local>>

\* the places <<i, j>> of the elements cas:<local> two levels below the root
PlacesAtDepth2(root, local) ==
    UNION { {<<i, j>> : j \in {n \in 1..Len(root.children[i].children) :
                                  IsCas(root.children[i].children[n], local)}} :
            i \in 1..Len(root.children) }

FirstPlace(places) ==
    CHOOSE p \in places :
        \A q \in places : p[1] < q[1] \/ (p[1] = q[1] /\ p[2] <= q[2])

ElementAt(root, place) == root.children[place[1]].children[place[2]]

\* a cas:<local> element anywhere under el, down to three levels
RECURSIVE OccursBelow(_, _, _)
OccursBelow(el, local, depth) ==
    /\ depth > 0
    /\ \E i \in 1..Len(el.children) :
           IsCas(el.children[i], local) \/ OccursBelow(el.children[i], local, depth - 1)

\* the texts of the cas:<local> elements anywhere under el
RECURSIVE TextsBelow(_, _, _)
TextsBelow(el, local, depth) ==
    IF depth = 0 THEN {}
    ELSE UNION {(IF IsCas(el.children[i], local) THEN {el.children[i].text} ELSE {})
                    \cup TextsBelow(el.children[i], local, depth - 1) :
                i \in 1..Len(el.children)}

WithUsername(sess, name) ==
    [k \in DOMAIN sess \cup {"CAS_USERNAME"} |-> IF k = "CAS_USERNAME" THEN name ELSE sess[k]]

\* C11: the V2 and V3 parsers, given a body that is not well-formed XML, or a
\* well-formed one with no user element and either no authenticationFailure
\* element or one without a code attribute, return False and write nothing.
C11_ParsersDegradeToInvalid ==
    (Parsed /\ applied.version \in {"2", "3"}
        /\ \/ applied.response.kind = "text"
           \/ /\ applied.response.kind = "xml"
              /\ ~OccursBelow(applied.response.root, "user", 3)
              /\ \A i \in 1..Len(applied.response.root.children) :
                     IsCas(applied.response.root.children[i], "authenticationFailure")
                         => applied.response.root.children[i].code = None_) =>
        /\ applied.result.ret = "False"
        /\ session = applied.pre

\* t is s without its leading and trailing whitespace
TrimOf(s, t) ==
    \E i \in 1..(Len(s) + 1), j \in 0..Len(s) :
        /\ t = SubSeq(s, i, j)
        /\ \A k \in 1..Len(s) :
               (k < i \/ k > j) => s[k] \in {" ", "\n", "\t", "\r", "\\x0b", "\\x0c"}
        /\ t # <<>> =>
               /\ t[1] \notin {" ", "\n", "\t", "\r", "\\x0b", "\\x0c"}
               /\ t[Len(t)] \notin {" ", "\n", "\t", "\r", "\\x0b", "\\x0c"}

\* name is the bytes of t that are valid UTF-8
DecodedOf(t, name) ==
    LET keep == {k \in 1..Len(t) : t[k] # "\\xff"}
    IN  /\ Len(name) = Cardinality(keep)
        /\ \A n \in 1..Len(name) :
               \E k \in keep : name[n] = t[k] /\ Cardinality({m \in keep : m < k}) = n - 1

\* C12: the V1 parser returns True exactly when the body has two lines and
\* the first, trimmed, is yes; it then stores the second line, trimmed and
\* decoded, as the username; for every other body it returns False, raises
\* nothing and leaves the session as it was.
C12_V1YesAndTwoLines ==
    (ParsedBy("1") /\ applied.response.kind \in {"text", "xml"}) =>
        LET lines == applied.response.lines
            valid == Len(lines) = 2 /\ TrimOf(lines[1], <<"y", "e", "s">>)
        IN  /\ applied.result.ret = (IF valid THEN "True" ELSE "False")
            /\ applied.result.closed
            /\ valid =>
                   /\ DOMAIN session = DOMAIN applied.pre \cup {"CAS_USERNAME"}
                   /\ \A k \in DOMAIN applied.pre \ {"CAS_USERNAME"} : session[k] = applied.pre[k]
                   /\ \E t \in {SubSeq(lines[2], i, j) :
                                    i \in 1..(Len(lines[2]) + 1), j \in 0..Len(lines[2])} :
                          TrimOf(lines[2], t) /\ DecodedOf(t, session["CAS_USERNAME"])
            /\ ~valid => session = applied.pre

C12_Witness ==
    /\ ParsedBy("1")
    /\ applied.response.kind = "text"
    /\ applied.result.ret = "True"
    /\ applied.response.lines[1] # <<"y", "e", "s", "\n">>
    /\ session["CAS_USERNAME"] = <<"b", "o">>

\* C13 as stated: the V2 parser reports success whenever a cas:user element
\* occurs at any depth under the root, with that element's text as the
\* username, and reports no success when none occurs.
C13_UserAtAnyDepth ==
    (ParsedBy("2") /\ applied.response.kind = "xml") =>
        IF OccursBelow(applied.response.root, "user", 3)
        THEN /\ applied.result.ret = "True"
             /\ session["CAS_USERNAME"] \in TextsBelow(applied.response.root, "user", 3)
        ELSE applied.result.ret # "True"

\* C13 as amended: the V2 parser reports success exactly when a cas:user
\* element occurs two levels below the root (a child of a child of the
\* root), also when its text is empty; the username stored is the text of
\* the first such element in document order, and nothing else is written;
\* otherwise it reports no success and writes nothing.
C13_UserAtDepthTwo ==
    (ParsedBy("2") /\ applied.response.kind = "xml") =>
        LET places == PlacesAtDepth2(applied.response.root, "user")
        IN  IF places # {}
            THEN /\ applied.result.ret = "True"
                 /\ session = WithUsername(applied.pre,
                        ElementAt(applied.response.root, FirstPlace(places)).text)
            ELSE /\ applied.result.ret # "True"
                 /\ session = applied.pre

C13_Witness ==
    /\ ParsedBy("2")
    /\ applied.result.ret = "True"
    /\ session["CAS_USERNAME"] = None_

\* the texts, in document order, of the children whose local name is key
TextsOf(kids, key) ==
    LET at == {i \in 1..Len(kids) : kids[i].tag[2] = key}
    IN  [n \in 1..Cardinality(at) |->
            kids[CHOOSE i \in at : Cardinality({m \in at : m < i}) = n - 1].text]

\* C14: the V3 parser stores, for every local tag name among the children of
\* the attributes element, the texts of the children with that name in
\* document order: as a scalar when there is one, as a sequence when there
\* are two or more; it stores no other key.
C14_AttributesFolded ==
    (ParsedBy("3") /\ applied.result.ret = "True") =>
        LET root == applied.response.root
            kids == ElementAt(root, FirstPlace(PlacesAtDepth2(root, "attributes"))).children
            attributes == session["CAS_ATTRIBUTES"]
        IN  /\ DOMAIN attributes = {kids[i].tag[2] : i \in 1..Len(kids)}
            /\ \A key \in DOMAIN attributes :
                   /\ attributes[key].texts = TextsOf(kids, key)
                   /\ attributes[key].list <=> Len(TextsOf(kids, key)) >= 2

C14_Witness ==
    /\ ParsedBy("3")
    /\ applied.result.ret = "True"
    /\ \E key \in DOMAIN session["CAS_ATTRIBUTES"] :
           Len(session["CAS_ATTRIBUTES"][key].texts) >= 3

\* C15: a parser that has returned or raised has closed the response stream.
C15_StreamClosedOnEveryExit ==
    Parsed => applied.result.closed

\* C16: a call of validate under a supported version requests the validate
\* URL of version 1 or the serviceValidate URL of versions 2 and 3, with
\* service = the login URL and ticket = the ticket given.
C16_ValidateUrlByVersion ==
    (Called /\ TheCall.version \in Supported) =>
        /\ Len(TheCall.requests) = 1
        /\ TheCall.requests[1].base = "http://cas.server.com"
        /\ TheCall.requests[1].path =
               <<"cas", IF TheCall.version = "1" THEN "validate" ELSE "serviceValidate">>
        /\ TheCall.requests[1].query =
               << <<"service", "http://localhost/login/">>, <<"ticket", TheCall.ticket>> >>

(***************************************************************************)
(* Properties of create_url.                                               *)
(***************************************************************************)
Built == applied.fn \in {"create_url", "create_cas_login_url"}

Returned == Built /\ applied.result.raised = None_

HasMark(url) == \E i \in 1..Len(url) : url[i] = "?"

\* the pairs of the input whose value is not None, in input order
Present(query) == SelectSeq(query, LAMBDA pair : ~pair[2].none)

\* the text after the first ? of a URL
QueryOf(url) ==
    IF HasMark(url) THEN SubSeq(url, index_of(url, "?") + 1, Len(url)) ELSE <<>>

Unescaped(c) ==
    CASE c = "%20" -> " "
      [] c = "+"   -> " "
      [] c = "%2F" -> "/"
      [] c = "%3F" -> "?"
      [] c = "%26" -> "&"
      [] c = "%3D" -> "="
      [] c = "%2B" -> "+"
      [] OTHER     -> c

Unquoted(s) == [i \in 1..Len(s) |-> Unescaped(s[i])]

\* a query string read back: its fields between &, each cut at its first =;
\* a field without = has no value
ReadField(field) ==
    LET i == index_of(field, "=")
    IN  IF i = 0 THEN <<Unquoted(field), PyNone>>
        ELSE <<Unquoted(SubSeq(field, 1, i - 1)),
               Str(Unquoted(SubSeq(field, i + 1, Len(field))))>>

ReadQuery(text) ==
    IF text = <<>> THEN <<>>
    ELSE LET fields == split(text, "&")
         IN  [i \in 1..Len(fields) |-> ReadField(fields[i])]

Truthy(path) ==
    \/ path.kind = "str" /\ path.s # <<>>
    \/ path.kind = "list" /\ \E i \in 1..Len(path.segs) : bool(path.segs[i])

\* C17 (as stated): every URL create_url returns contains a literal ?.
C17_AlwaysQuestionMark ==
    Returned => HasMark(applied.result.url)

\* C17 (amended): a URL create_url returns for a base without a query contains
\* a literal ? exactly when at least one pair has a value that is not None.
C17_QuestionMarkIffPairPresent ==
    (Returned /\ ~HasMark(applied.base)) =>
        (HasMark(applied.result.url) <=> Present(applied.query) # <<>>)

C17_Witness ==
    /\ Returned
    /\ applied.query # <<>>
    /\ Present(applied.query) = <<>>
    /\ Truthy(applied.path)
    /\ ~HasMark(applied.result.url)

\* C18: the query string of the URL create_url returns, read back, is the
\* pairs of the input whose value is not None, in input order; a pair whose
\* value is the empty string is there as key= .
C18_QueryKeepsPresentPairsInOrder ==
    Returned => ReadQuery(QueryOf(applied.result.url)) = Present(applied.query)

C18_Witness ==
    /\ Returned
    /\ \E i, j, k \in 1..Len(applied.query) :
           /\ i < j /\ j < k
           /\ applied.query[i][2] = Str(<<>>)
           /\ applied.query[j][2] = PyNone
           /\ bool(applied.query[k][2])
    /\ Len(ReadQuery(QueryOf(applied.result.url))) = 2

\* the segments of a list path with segment i replaced
WithSegment(segs, i, text) == [segs EXCEPT ![i] = Str(text)]

IsLeft(segs, i) == bool(segs[i]) /\ \E j \in (i + 1)..Len(segs) : bool(segs[j])

IsRight(segs, i) == bool(segs[i]) /\ \E j \in 1..(i - 1) : bool(segs[j])

\* the lists that differ from segs by one slash added at the end of a left
\* segment or at the start of a right segment
SlashAdded(segs) ==
    {WithSegment(segs, i, segs[i].s \o <<"/">>) : i \in {n \in 1..Len(segs) : IsLeft(segs, n)}}
        \cup
    {WithSegment(segs, i, <<"/">> \o segs[i].s) : i \in {n \in 1..Len(segs) : IsRight(segs, n)}}

\* the lists that differ from segs by one slash removed there
SlashRemoved(segs) ==
    {WithSegment(segs, i, SubSeq(segs[i].s, 1, Len(segs[i].s) - 1)) :
         i \in {n \in 1..Len(segs) : IsLeft(segs, n) /\ segs[n].s[Len(segs[n].s)] = "/"}}
        \cup
    {WithSegment(segs, i, Tail(segs[i].s)) :
         i \in {n \in 1..Len(segs) : IsRight(segs, n) /\ Head(segs[n].s) = "/"}}

\* those of them in which the segment that lost its slash is not empty
SlashRemovedNotEmptied(segs) ==
    {other \in SlashRemoved(segs) : \A i \in 1..Len(other) : bool(segs[i]) => bool(other[i])}

SameUrlFor(lists) ==
    \A other \in lists :
        create_url_text(applied.base, PathList(other), applied.query) = applied.result

DoubleSlash(url) == \E i \in 1..(Len(url) - 1) : url[i] = "/" /\ url[i + 1] = "/"

ListPath == Built /\ applied.path.kind = "list"

\* C19 (as stated): for a list path, the URL is the one of the list without
\* its empty and None segments, has no double slash, and is unchanged by
\* adding or removing a trailing slash on a left segment or a leading slash
\* on a right segment.
C19_SlashesNeverMatter ==
    ListPath =>
        /\ create_url_text(applied.base,
                           PathList(SelectSeq(applied.path.segs, bool)),
                           applied.query) = applied.result
        /\ Returned => ~DoubleSlash(applied.result.url)
        /\ SameUrlFor(SlashAdded(applied.path.segs))
        /\ SameUrlFor(SlashRemoved(applied.path.segs))

\* C19 (amended): the same, for a removal that leaves the segment non-empty;
\* a segment that is only a slash is kept, and removing its slash drops it.
C19_SlashesOfNonEmptySegments ==
    ListPath =>
        /\ create_url_text(applied.base,
                           PathList(SelectSeq(applied.path.segs, bool)),
                           applied.query) = applied.result
        /\ Returned => ~DoubleSlash(applied.result.url)
        /\ SameUrlFor(SlashAdded(applied.path.segs))
        /\ SameUrlFor(SlashRemovedNotEmptied(applied.path.segs))

C19_Witness ==
    /\ ListPath
    /\ Returned
    /\ \E i, j, k \in 1..Len(applied.path.segs) :
           /\ i < j /\ j < k
           /\ applied.path.segs[i] = Str(<<"/", "a", "/">>)
           /\ ~bool(applied.path.segs[j])
           /\ applied.path.segs[k] = Str(<<"/", "a">>)
    /\ applied.base = <<Origin, "/", "x", "/">>
    /\ SubSeq(applied.result.url, 1, 5) = <<Origin, "/", "a", "/", "a">>

\* C20: for a list path whose segments are all empty or None (the empty list
\* included), create_url returns, and returns what it returns without a path.
C20_EmptyListIsNoPath ==
    (ListPath /\ ~Truthy(applied.path)) =>
        /\ Returned
        /\ applied.result = create_url_text(applied.base, PathNone, applied.query)

(***************************************************************************)
(* Properties of a session over several requests.                          *)
(***************************************************************************)
\* the token the client carries was accepted by validate in the last request
AcceptedNow ==
    /\ last.op = "login"
    /\ Len(last.calls) = 1
    /\ last.calls[1].outcome = "True"
    /\ last.calls[1].ticket = cookie["_CAS_TOKEN"]

\* C21: after every request, a token the session still holds was accepted by
\* the validation of the most recent login request: a login request leaves
\* a token only if its validation accepted it, a logout request leaves only
\* the token that was there.
C21_StoredTokenWasAccepted ==
    [][ Has(cookie', "_CAS_TOKEN") =>
            \/ AcceptedNow'
            \/ /\ last'.op = "logout"
               /\ Has(cookie, "_CAS_TOKEN")
               /\ cookie'["_CAS_TOKEN"] = cookie["_CAS_TOKEN"] ]_vars

\* C22: after a logout request the session holds no token, and a login
\* request without a ticket that follows it sends no validation request and
\* leaves no username in the session.
C22_LogoutForgetsToken ==
    [][ /\ last'.op = "logout" => ~Has(cookie', "_CAS_TOKEN")
        /\ (last.op = "logout" /\ last'.op = "login" /\ last'.ticket = "None") =>
               /\ \A i \in 1..Len(last'.calls) : last'.calls[i].requests = <<>>
               /\ ~Has(cookie', "CAS_USERNAME") ]_vars

\* C23: the V3 parser, given a document with a user element two levels below
\* the root and no attributes element there, returns True, stores the
\* user's text as the username and an empty mapping as the attributes.
C23_NoAttributesElement ==
    ( /\ ParsedBy("3")
      /\ applied.response.kind = "xml"
      /\ PlacesAtDepth2(applied.response.root, "user") # {}
      /\ PlacesAtDepth2(applied.response.root, "attributes") = {} ) =>
        /\ applied.result.ret = "True"
        /\ Has(session, "CAS_USERNAME")
        /\ session["CAS_USERNAME"] =
               ElementAt(applied.response.root,
                         FirstPlace(PlacesAtDepth2(applied.response.root, "user"))).text
        /\ Has(session, "CAS_ATTRIBUTES")
        /\ DOMAIN session["CAS_ATTRIBUTES"] = {}

====
